---- MODULE Spec2Model ----
(***************************************************************************)
(* Days-to-hire statistics: the aggregation run of home_task/cli.py and    *)
(* the lookup endpoint of home_task/api.py, over the two tables            *)
(* job_posting (facts) and days_to_hire_statistics (summary).              *)
(*                                                                         *)
(* Tables are bags of rows.  The surrogate keys (job_posting.id,           *)
(* days_to_hire_statistics.id) and job_posting.title are read by no query  *)
(* of the program and are left out of the rows.                            *)
(* Numbers of the summary table are exact rationals <<num, den>>.          *)
(***************************************************************************)
EXTENDS Integers, Sequences, FiniteSets, Bags, TLC

\* ------------------------------------------------------------------ bounds
MaxPostings == 4
MaxDays == 3
MaxMinPostings == 3
MaxRuns == 2

\* ------------------------------------------------------------ value domains
\* SQL NULL / Python None in a string column or parameter.
Null == "NULL"
\* SQL NULL in the integer column days_to_hire.
NullInt == 0 - 1
\* SQL NULL in a float column (a rational with denominator 0).
NullRat == <<0, 0>>

Jobs == {"job1", "job2"}
Countries == {"DE", "US"}
Days == 1..MaxDays
Runners == {1, 2}

\* The rows the bounded fact tables are drawn from: job1 in every country
\* (and with no country) with every days_to_hire (and none); job2 only in
\* "US", so that a second standard job exists without doubling the tables.
PostingTypes ==
    { p \in [standard_job_id : Jobs,
             country_code : Countries \cup {Null},
             days_to_hire : Days \cup {NullInt}] :
        p.standard_job_id = "job2" =>
            (p.country_code = "US" /\ p.days_to_hire \in {1, NullInt}) }

\* ---------------------------------------------------------------- helpers
RECURSIVE GCD(_, _)
GCD(a, b) == IF b = 0 THEN a ELSE GCD(b, a % b)

\* The rational n/d (d > 0, n >= 0) in lowest terms.
Rat(n, d) == LET g == GCD(n, d) IN <<n \div g, d \div g>>

RatLeq(a, b) == a[1] * b[2] <= b[1] * a[2]

RECURSIVE SumSeq(_)
SumSeq(s) == IF s = <<>> THEN 0 ELSE Head(s) + SumSeq(Tail(s))

RECURSIVE Rep(_, _)
Rep(v, k) == IF k <= 0 THEN <<>> ELSE <<v>> \o Rep(v, k - 1)

RECURSIVE SumOver(_, _)
SumOver(f, S) ==
    IF S = {} THEN 0
    ELSE LET x == CHOOSE y \in S : TRUE IN f[x] + SumOver(f, S \ {x})

SetMin(S) == CHOOSE x \in S : \A y \in S : x <= y

\* The ascending sequence holding cnt[v] copies of every v of vals.
RECURSIVE SortedSeq(_, _)
SortedSeq(cnt, vals) ==
    IF vals = {} THEN <<>>
    ELSE LET m == SetMin(vals)
         IN Rep(m, cnt[m]) \o SortedSeq(cnt, vals \ {m})

\* --------------------------------------------------- the ranked partitions
\* days_to_hire values of table t that satisfy WHERE days_to_hire IS NOT NULL.
ValuesOf(t) == { p.days_to_hire : p \in BagToSet(t) } \ {NullInt}

\* Rows of t in the window partition (j, c); PARTITION BY puts the rows
\* whose country_code is NULL into one partition of their own.
CountryPartition(t, j, c) ==
    LET cnt == [v \in ValuesOf(t) |->
                  CopiesIn([standard_job_id |-> j, country_code |-> c,
                            days_to_hire |-> v], t)]
    IN SortedSeq(cnt, ValuesOf(t))

\* Rows of t in the window partition (j) of the global query.
GlobalPartition(t, j) ==
    LET cnt == [v \in ValuesOf(t) |->
                  SumOver([c \in Countries \cup {Null} |->
                             CopiesIn([standard_job_id |-> j, country_code |-> c,
                                       days_to_hire |-> v], t)],
                          Countries \cup {Null})]
    IN SortedSeq(cnt, ValuesOf(t))

\* ------------------------------------------------------- window functions
\* NTILE(10): the number of buckets.
Buckets == 10

\* NTILE(Buckets) of the row at 1-based rank i of a partition of n rows:
\* the first n % Buckets buckets hold n \div Buckets + 1 rows, the others
\* n \div Buckets rows.
NTile(i, n) ==
    LET q == n \div Buckets
        r == n % Buckets
    IN IF i <= r * (q + 1)
       THEN ((i - 1) \div (q + 1)) + 1
       ELSE r + ((i - r * (q + 1) - 1) \div q) + 1

\* How ORDER BY days_to_hire DESC places rows of equal value, which SQL
\* leaves open: in the reverse of their ascending order, or in the same
\* relative order as in the ascending sort.
TieOrders == {"reverse", "stable"}

\* Rank under ORDER BY days_to_hire DESC of the row at ascending rank i of
\* the sorted partition s.
DescRank(s, i, tie) ==
    IF tie = "reverse"
    THEN Len(s) + 1 - i
    ELSE Cardinality({k \in 1..Len(s) : s[k] > s[i]})
         + Cardinality({k \in 1..i : s[k] = s[i]})

\* CTE filtered: the rows of ranked with decile_low > 1 AND decile_high > 1,
\* as ascending ranks of the sorted partition s.
Filtered(s, tie) ==
    { i \in 1..Len(s) :
        NTile(i, Len(s)) > 1 /\ NTile(DescRank(s, i, tie), Len(s)) > 1 }

\* Number of rows of filtered whose days_to_hire is v.
FilteredCount(s, tie, v) == Cardinality({ i \in Filtered(s, tie) : s[i] = v })

\* ranked r LEFT JOIN filtered f ON ... AND r.days_to_hire = f.days_to_hire,
\* for one partition: every row of ranked is paired with every row of
\* filtered of the same days_to_hire, or with one all-NULL row when there is
\* none.  keyMatches is whether the key columns of the ON clause compare
\* equal (r.country_code = f.country_code is never true for NULL).
\* JoinedR is the column r.days_to_hire of the joined rows, ascending.
RECURSIVE JoinedR(_, _, _, _)
JoinedR(s, tie, keyMatches, i) ==
    IF i > Len(s) THEN <<>>
    ELSE LET m == IF keyMatches THEN FilteredCount(s, tie, s[i]) ELSE 0
         IN Rep(s[i], IF m = 0 THEN 1 ELSE m)
            \o JoinedR(s, tie, keyMatches, i + 1)

\* JoinedF is the non-NULL values of the column f.days_to_hire of the
\* joined rows.
RECURSIVE JoinedF(_, _, _, _)
JoinedF(s, tie, keyMatches, i) ==
    IF i > Len(s) THEN <<>>
    ELSE LET m == IF keyMatches THEN FilteredCount(s, tie, s[i]) ELSE 0
         IN Rep(s[i], m) \o JoinedF(s, tie, keyMatches, i + 1)

\* percentile_cont(tenths / 10) WITHIN GROUP (ORDER BY ...) of the ascending
\* sequence s: linear interpolation at the continuous rank
\* tenths * (N - 1) / 10 (0-based).
PercentileCont(tenths, s) ==
    IF s = <<>> THEN NullRat
    ELSE LET pos == tenths * (Len(s) - 1)
             lo == pos \div 10
             fr == pos % 10
             hi == IF fr = 0 THEN lo ELSE lo + 1
         IN Rat(10 * s[lo + 1] + fr * (s[hi + 1] - s[lo + 1]), 10)

\* AVG(...) over the non-NULL values s; NULL when there is none.
Avg(s) == IF s = <<>> THEN NullRat ELSE Rat(SumSeq(s), Len(s))

\* Mutant of StatRow: the count taken after trimming.
StatRowTrimmedCount(j, c, s, tie, keyMatches) ==
    [standard_job_id |-> j,
     country_code |-> c,
     min_days |-> PercentileCont(1, JoinedR(s, tie, keyMatches, 1)),
     avg_days |-> Avg(JoinedF(s, tie, keyMatches, 1)),
     max_days |-> PercentileCont(9, JoinedR(s, tie, keyMatches, 1)),
     job_postings_number |-> Cardinality(Filtered(s, tie))]

\* The result row of one GROUP BY group: s is the sorted partition,
\* total_count its COUNT(*) OVER (PARTITION BY ...).
StatRow(j, c, s, tie, keyMatches) ==
    [standard_job_id |-> j,
     country_code |-> c,
     min_days |-> PercentileCont(1, JoinedR(s, tie, keyMatches, 1)),
     avg_days |-> Avg(JoinedF(s, tie, keyMatches, 1)),
     max_days |-> PercentileCont(9, JoinedR(s, tie, keyMatches, 1)),
     job_postings_number |-> Len(s)]

JobsOf(t) == { p.standard_job_id : p \in BagToSet(t) }

\* Mutant of Having: the threshold compared strictly.
HavingStrict(total_count, min_postings) == total_count > min_postings

\* HAVING r.total_count >= :min_postings
Having(total_count, min_postings) == total_count >= min_postings

\* COUNTRY_STATS_QUERY and the loop of calculate_country_statistics: one
\* DaysToHireStatistics object per group (standard_job_id, country_code).
CountryStatsQuery(t, min_postings, tie) ==
    SetToBag({ StatRow(k[1], k[2], CountryPartition(t, k[1], k[2]), tie,
                       k[2] # Null) :
               k \in { g \in JobsOf(t) \X (Countries \cup {Null}) :
                         /\ CountryPartition(t, g[1], g[2]) # <<>>
                         /\ Having(Len(CountryPartition(t, g[1], g[2])),
                                   min_postings) } })

\* GLOBAL_STATS_QUERY and the loop of calculate_global_statistics: one
\* object per standard_job_id, with country_code = None.
GlobalStatsQuery(t, min_postings, tie) ==
    SetToBag({ StatRow(j, Null, GlobalPartition(t, j), tie, TRUE) :
               j \in { g \in JobsOf(t) :
                         /\ GlobalPartition(t, g) # <<>>
                         /\ Having(Len(GlobalPartition(t, g)), min_postings) } })

\* Mutant of NotNullOk: avg_days declared nullable.
NotNullOkAvgNullable(row) ==
    /\ row.min_days # NullRat
    /\ row.max_days # NullRat

\* The NOT NULL columns of days_to_hire_statistics that a computed row can
\* leave NULL.
NotNullOk(row) ==
    /\ row.min_days # NullRat
    /\ row.avg_days # NullRat
    /\ row.max_days # NullRat

\* ------------------------------------------------------------------ state
VARIABLES
    job_posting,              \* the fact table, a bag of rows
    days_to_hire_statistics,  \* the committed summary table, a bag of rows
    pc,                       \* per run of the CLI: its position
    min_postings,             \* per run: args.min_postings
    country_stats,            \* per run: the list country_stats, as a bag
    global_stats,             \* per run: the list global_stats, as a bag
    runs,                     \* CLI invocations so far
    snapshot,                 \* history: the summary table when the run started
    previous,                 \* history: min_postings of the run completed just
                              \* before this one by the same runner, 0 if none
    response                  \* the last HTTP response of the API

vars == <<job_posting, days_to_hire_statistics, pc, min_postings, country_stats,
          global_stats, runs, snapshot, previous, response>>

\* test_cli_correct_statistics: ten postings of job2 in DE with
\* days_to_hire 10, 20, ..., 100.
ExamplePostings ==
    SetToBag({ [standard_job_id |-> "job2", country_code |-> "DE",
                days_to_hire |-> 10 * i] : i \in 1..10 })

\* Every bag of at most n rows of PostingTypes.
RECURSIVE BagsUpTo(_)
BagsUpTo(n) ==
    IF n = 0 THEN {EmptyBag}
    ELSE LET smaller == BagsUpTo(n - 1)
         IN smaller \cup { b (+) SetToBag({p}) : b \in smaller, p \in PostingTypes }

\* Seven postings of job1 in US, five of them with the same days_to_hire:
\* days_to_hire 1, 1, 1, 1, 1, 2, 3.
DuplicatePostings ==
    [p \in { [standard_job_id |-> "job1", country_code |-> "US",
              days_to_hire |-> d] : d \in 1..3 } |->
        IF p.days_to_hire = 1 THEN 5 ELSE 1]

PostingTables == BagsUpTo(MaxPostings) \cup {ExamplePostings, DuplicatePostings}

\* test_cli_overwrites_existing_statistics: a row inserted by hand,
\* VALUES ('job3', 'FR', 1, 2, 3, 10), here for a key of the model.
ManualRow ==
    [standard_job_id |-> "job1", country_code |-> "US",
     min_days |-> <<1, 1>>, avg_days |-> <<2, 1>>, max_days |-> <<3, 1>>,
     job_postings_number |-> 10]

SeedTables == {EmptyBag, SetToBag({ManualRow})}

NoResponse == [endpoint |-> "", status_code |-> 0]

Init ==
    /\ job_posting \in PostingTables
    /\ days_to_hire_statistics \in SeedTables
    /\ pc = [r \in Runners |-> "idle"]
    /\ min_postings = [r \in Runners |-> 0]
    /\ country_stats = [r \in Runners |-> EmptyBag]
    /\ global_stats = [r \in Runners |-> EmptyBag]
    /\ runs = 0
    /\ snapshot = [r \in Runners |-> EmptyBag]
    /\ previous = [r \in Runners |-> 0]
    /\ response = NoResponse

\* ---------------------------------------------------- the aggregation run
\* main: parse --min-postings, open the session, call process_job_postings.
Main(r, mp) ==
    /\ pc[r] \in {"idle", "done", "failed"}
    /\ runs < MaxRuns
    /\ runs' = runs + 1
    /\ pc' = [pc EXCEPT ![r] = "clear"]
    /\ min_postings' = [min_postings EXCEPT ![r] = mp]
    /\ country_stats' = [country_stats EXCEPT ![r] = EmptyBag]
    /\ global_stats' = [global_stats EXCEPT ![r] = EmptyBag]
    /\ snapshot' = [snapshot EXCEPT ![r] = days_to_hire_statistics]
    /\ previous' = [previous EXCEPT
                      ![r] = IF pc[r] = "done" THEN min_postings[r] ELSE 0]
    /\ UNCHANGED <<job_posting, days_to_hire_statistics, response>>

\* Mutant of ClearExistingStatistics: the DELETE spares the global rows.
ClearCountryRowsOnly(r) ==
    /\ pc[r] = "clear"
    /\ days_to_hire_statistics' =
         LET kept == { row \in BagToSet(days_to_hire_statistics) :
                         row.country_code = Null }
         IN [row \in kept |-> CopiesIn(row, days_to_hire_statistics)]
    /\ pc' = [pc EXCEPT ![r] = "country"]
    /\ UNCHANGED <<job_posting, min_postings, country_stats, global_stats, runs,
                   snapshot, previous, response>>

\* Mutant of ClearExistingStatistics: the DELETE is left out.
ClearNothing(r) ==
    /\ pc[r] = "clear"
    /\ pc' = [pc EXCEPT ![r] = "country"]
    /\ UNCHANGED <<job_posting, days_to_hire_statistics, min_postings,
                   country_stats, global_stats, runs, snapshot, previous,
                   response>>

\* clear_existing_statistics: DELETE FROM days_to_hire_statistics, then
\* session.commit().
ClearExistingStatistics(r) ==
    /\ pc[r] = "clear"
    /\ days_to_hire_statistics' = EmptyBag
    /\ pc' = [pc EXCEPT ![r] = "country"]
    /\ UNCHANGED <<job_posting, min_postings, country_stats, global_stats, runs,
                   snapshot, previous, response>>

\* calculate_country_statistics, then insert_statistics (session.add_all:
\* nothing is written before the commit).
CalculateCountryStatistics(r) ==
    /\ pc[r] = "country"
    /\ \E tie \in TieOrders :
         country_stats' = [country_stats EXCEPT
             ![r] = CountryStatsQuery(job_posting, min_postings[r], tie)]
    /\ pc' = [pc EXCEPT ![r] = "global"]
    /\ UNCHANGED <<job_posting, days_to_hire_statistics, min_postings,
                   global_stats, runs, snapshot, previous, response>>

\* calculate_global_statistics, then insert_statistics.
CalculateGlobalStatistics(r) ==
    /\ pc[r] = "global"
    /\ \E tie \in TieOrders :
         global_stats' = [global_stats EXCEPT
             ![r] = GlobalStatsQuery(job_posting, min_postings[r], tie)]
    /\ pc' = [pc EXCEPT ![r] = "commit"]
    /\ UNCHANGED <<job_posting, days_to_hire_statistics, min_postings,
                   country_stats, runs, snapshot, previous, response>>

\* Mutant of Commit: the commit also deletes the postings it has aggregated.
CommitDeletesPostings(r) ==
    /\ pc[r] = "commit"
    /\ days_to_hire_statistics' =
         days_to_hire_statistics (+) country_stats[r] (+) global_stats[r]
    /\ job_posting' = EmptyBag
    /\ pc' = [pc EXCEPT ![r] = "done"]
    /\ UNCHANGED <<min_postings, country_stats, global_stats, runs, snapshot,
                   previous, response>>

\* The final session.commit(): the pending objects are INSERTed and
\* committed together, or a NOT NULL violation raises IntegrityError, nothing
\* of this transaction is written, and main re-raises.
Commit(r) ==
    /\ pc[r] = "commit"
    /\ LET pending == country_stats[r] (+) global_stats[r]
       IN IF \A row \in BagToSet(pending) : NotNullOk(row)
          THEN /\ days_to_hire_statistics' = days_to_hire_statistics (+) pending
               /\ pc' = [pc EXCEPT ![r] = "done"]
               /\ UNCHANGED <<country_stats, global_stats>>
          ELSE /\ pc' = [pc EXCEPT ![r] = "failed"]
               /\ country_stats' = [country_stats EXCEPT ![r] = EmptyBag]
               /\ global_stats' = [global_stats EXCEPT ![r] = EmptyBag]
               /\ UNCHANGED days_to_hire_statistics
    /\ UNCHANGED <<job_posting, min_postings, runs, snapshot, previous, response>>

\* The datastore call of the current step raises (the DELETE or its commit,
\* a statistics query, the final commit): the open transaction is lost, the
\* exception leaves process_job_postings and main re-raises it.
DatastoreError(r) ==
    /\ pc[r] \in {"clear", "country", "global", "commit"}
    /\ pc' = [pc EXCEPT ![r] = "failed"]
    /\ country_stats' = [country_stats EXCEPT ![r] = EmptyBag]
    /\ global_stats' = [global_stats EXCEPT ![r] = EmptyBag]
    /\ UNCHANGED <<job_posting, days_to_hire_statistics, min_postings, runs,
                   snapshot, previous, response>>

\* One CLI process at a time.
Next ==
    \/ \E mp \in 1..MaxMinPostings : Main(1, mp)
    \/ ClearExistingStatistics(1)
    \/ CalculateCountryStatistics(1)
    \/ CalculateGlobalStatistics(1)
    \/ Commit(1)
    \/ DatastoreError(1)

Spec == Init /\ [][Next]_vars

\* ------------------------------------------------- the statistics endpoint
\* str.strip(), for strings whose only whitespace is the blank.
RECURSIVE Strip(_)
Strip(str) ==
    IF str = "" THEN str
    ELSE IF Head(str) = " " THEN Strip(Tail(str))
    ELSE IF SubSeq(str, Len(str), Len(str)) = " "
         THEN Strip(SubSeq(str, 1, Len(str) - 1))
    ELSE str

\* Python truth value of an Optional[str]: None and "" are false.
Truthy(str) == str # Null /\ str # ""

\* The values of the query parameters the requests are drawn from; Null is
\* a country_code parameter that is absent.
RequestJobs == Jobs \cup {"", " ", "job9"}
RequestCountries == Countries \cup {Null, "", "FR"}

\* Mutant of SelectStatistics: without a country every row of the job
\* matches.
SelectAnyCountry(t, standard_job_id, country_code) ==
    { row \in BagToSet(t) :
        /\ row.standard_job_id = standard_job_id
        /\ Truthy(country_code) =>
             (row.country_code # Null /\ row.country_code = country_code) }

\* The rows either SELECT of get_statistics returns from table t:
\* WHERE standard_job_id = :standard_job_id AND country_code = :country_code
\* when country_code is truthy, ... AND country_code IS NULL otherwise.
SelectStatistics(t, standard_job_id, country_code) ==
    { row \in BagToSet(t) :
        /\ row.standard_job_id = standard_job_id
        /\ IF Truthy(country_code)
           THEN row.country_code # Null /\ row.country_code = country_code
           ELSE row.country_code = Null }

\* The detail of the 404 raised when fetchone() returns None.
NotFoundDetail(standard_job_id, country_code) ==
    IF Truthy(country_code)
    THEN "No statistics found for standard_job_id '" \o standard_job_id
         \o "' and country_code '" \o country_code \o "'"
    ELSE "No global statistics found for standard_job_id '"
         \o standard_job_id \o "'"

NoBody == [standard_job_id |-> Null]

\* Mutant of IsBlank: the identifier is not stripped before the test.
IsBlankUnstripped(standard_job_id) == standard_job_id = ""

\* not standard_job_id or not standard_job_id.strip()
IsBlank(standard_job_id) ==
    standard_job_id = "" \/ Strip(standard_job_id) = ""

\* Mutant of ExceptClauses: no except HTTPException clause before the
\* except Exception clause.
ExceptClausesCatchAll(raised) ==
    [status_code |-> 500,
     detail |-> "Internal server error while retrieving statistics"]

\* The except clauses of get_statistics: an HTTPException is re-raised as it
\* is, any other exception becomes a 500.
ExceptClauses(raised) ==
    IF raised.http
    THEN [status_code |-> raised.status_code, detail |-> raised.detail]
    ELSE [status_code |-> 500,
          detail |-> "Internal server error while retrieving statistics"]

\* GET /statistics.  db_ok is whether the datastore answers; when it does
\* not, get_session or session.execute raises.  The field session of the
\* response records whether the handler reached get_session().
GetStatistics(standard_job_id, country_code, db_ok) ==
    LET request == [standard_job_id |-> standard_job_id,
                    country_code |-> country_code, db_ok |-> db_ok]
        rows == SelectStatistics(days_to_hire_statistics, standard_job_id,
                                 country_code)
        Error(e, session) ==
            [endpoint |-> "/statistics", request |-> request,
             session |-> session, status_code |-> e.status_code,
             detail |-> e.detail, body |-> NoBody]
    IN /\ IF IsBlank(standard_job_id)
          THEN response' = Error([status_code |-> 400,
                   detail |-> "standard_job_id parameter is required and cannot be empty"],
                   FALSE)
          ELSE IF ~ db_ok
          THEN response' = Error(ExceptClauses(
                   [http |-> FALSE, status_code |-> 0, detail |-> ""]), TRUE)
          ELSE IF rows = {}
          THEN response' = Error(ExceptClauses(
                   [http |-> TRUE, status_code |-> 404,
                    detail |-> NotFoundDetail(standard_job_id, country_code)]),
                   TRUE)
          ELSE \E row \in rows :
                 response' = [endpoint |-> "/statistics", request |-> request,
                              session |-> TRUE, status_code |-> 200,
                              detail |-> "", body |-> row]
       /\ UNCHANGED <<job_posting, days_to_hire_statistics, pc, min_postings,
                      country_stats, global_stats, runs, snapshot, previous>>

\* ---------------------------------------------------- the listing endpoints
\* Number of rows of bag t that are in the set rows.
CountRows(t, rows) == SumOver([p \in rows |-> CopiesIn(p, t)], rows)

\* The characters of the identifiers, in the order ORDER BY compares them.
Alphabet == " 0123456789ABCDEFGHIJKLMNOPQRSTUVWXYZabcdefghijklmnopqrstuvwxyz"

CharRank(ch) == CHOOSE i \in 1..Len(Alphabet) : SubSeq(Alphabet, i, i) = ch

\* a < b in the order of ORDER BY on a text column.
RECURSIVE StrLess(_, _)
StrLess(a, b) ==
    IF b = "" THEN FALSE
    ELSE IF a = "" THEN TRUE
    ELSE IF Head(a) = Head(b) THEN StrLess(Tail(a), Tail(b))
    ELSE CharRank(Head(a)) < CharRank(Head(b))

\* The column standard_job_id of the rows of t, as a bag of values.
JobColumn(t) ==
    LET rows == BagToSet(t)
    IN [v \in {row.standard_job_id : row \in rows} |->
          CountRows(t, {row \in rows : row.standard_job_id = v})]

\* The column country_code of the rows of t selected by
\* WHERE standard_job_id = :standard_job_id AND country_code IS NOT NULL.
CountryColumn(t, standard_job_id) ==
    LET rows == {row \in BagToSet(t) :
                   /\ row.standard_job_id = standard_job_id
                   /\ row.country_code # Null}
    IN [v \in {row.country_code : row \in rows} |->
          CountRows(t, {row \in rows : row.country_code = v})]

\* Mutant of Distinct: SELECT without DISTINCT.
DistinctKeepsAll(column) == column

\* SELECT DISTINCT: one copy of every value of the column.
Distinct(column) == [v \in DOMAIN column |-> 1]

\* ORDER BY on a bag of values: the values in ascending order, each as often
\* as the bag holds it.
RECURSIVE OrderBy(_)
OrderBy(column) ==
    IF DOMAIN column = {} THEN << >>
    ELSE LET least == CHOOSE v \in DOMAIN column :
                        \A w \in DOMAIN column \ {v} : StrLess(v, w)
         IN Rep(least, column[least])
            \o OrderBy([v \in DOMAIN column \ {least} |-> column[v]])

\* GET /statistics/available-jobs.
GetAvailableJobs(db_ok) ==
    LET request == [db_ok |-> db_ok]
        jobs == OrderBy(Distinct(JobColumn(days_to_hire_statistics)))
    IN /\ IF ~ db_ok
          THEN response' = [endpoint |-> "/statistics/available-jobs",
                            request |-> request, session |-> TRUE,
                            status_code |-> 500,
                            detail |-> "Error retrieving available jobs",
                            body |-> NoBody]
          ELSE response' = [endpoint |-> "/statistics/available-jobs",
                            request |-> request, session |-> TRUE,
                            status_code |-> 200, detail |-> "",
                            body |-> [available_jobs |-> jobs,
                                      count |-> Len(jobs)]]
       /\ UNCHANGED <<job_posting, days_to_hire_statistics, pc, min_postings,
                      country_stats, global_stats, runs, snapshot, previous>>

\* GET /statistics/available-countries.
GetAvailableCountries(standard_job_id, db_ok) ==
    LET request == [standard_job_id |-> standard_job_id, db_ok |-> db_ok]
        countries == OrderBy(Distinct(CountryColumn(days_to_hire_statistics,
                                                    standard_job_id)))
    IN /\ IF ~ db_ok
          THEN response' = [endpoint |-> "/statistics/available-countries",
                            request |-> request, session |-> TRUE,
                            status_code |-> 500,
                            detail |-> "Error retrieving available countries",
                            body |-> NoBody]
          ELSE response' = [endpoint |-> "/statistics/available-countries",
                            request |-> request, session |-> TRUE,
                            status_code |-> 200, detail |-> "",
                            body |-> [standard_job_id |-> standard_job_id,
                                      available_countries |-> countries,
                                      count |-> Len(countries)]]
       /\ UNCHANGED <<job_posting, days_to_hire_statistics, pc, min_postings,
                      country_stats, global_stats, runs, snapshot, previous>>

\* GET /health.
HealthCheck ==
    /\ response' = [endpoint |-> "/health", session |-> FALSE,
                    status_code |-> 200, detail |-> "",
                    body |-> [status |-> "healthy",
                              service |-> "days-to-hire-statistics-api"]]
    /\ UNCHANGED <<job_posting, days_to_hire_statistics, pc, min_postings,
                   country_stats, global_stats, runs, snapshot, previous>>

\* The rows of the summary tables the endpoints are exercised on.
SummaryRows ==
    { [ManualRow EXCEPT !.standard_job_id = j, !.country_code = c] :
        j \in Jobs, c \in Countries \cup {Null} }

\* The summary tables the endpoints are exercised on: any set of rows over
\* the keys of the model, each row once or, the table having no unique key,
\* twice.
SummaryTables ==
    { SetToBag(rows) : rows \in SUBSET SummaryRows }
    \cup { SetToBag(rows) (+) SetToBag(rows) : rows \in SUBSET SummaryRows }

InitApi ==
    /\ job_posting = EmptyBag
    /\ days_to_hire_statistics \in SummaryTables
    /\ pc = [r \in Runners |-> "idle"]
    /\ min_postings = [r \in Runners |-> 0]
    /\ country_stats = [r \in Runners |-> EmptyBag]
    /\ global_stats = [r \in Runners |-> EmptyBag]
    /\ runs = 0
    /\ snapshot = [r \in Runners |-> EmptyBag]
    /\ previous = [r \in Runners |-> 0]
    /\ response = NoResponse

NextApi ==
    \/ \E standard_job_id \in RequestJobs, country_code \in RequestCountries,
          db_ok \in BOOLEAN :
           GetStatistics(standard_job_id, country_code, db_ok)
    \/ \E db_ok \in BOOLEAN : GetAvailableJobs(db_ok)
    \/ \E standard_job_id \in RequestJobs, db_ok \in BOOLEAN :
           GetAvailableCountries(standard_job_id, db_ok)
    \/ HealthCheck

SpecApi == InitApi /\ [][NextApi]_vars

\* ------------------------------------- the service reading while a run runs
\* Three postings of job1 in US with days_to_hire 1, 2, 3: every run with
\* min_postings up to 3 computes a record for (job1, US) and one for job1
\* worldwide.
LivePostings ==
    SetToBag({ [standard_job_id |-> "job1", country_code |-> "US",
                days_to_hire |-> d] : d \in 1..3 })

LiveTables == {EmptyBag, LivePostings}

InitLive ==
    /\ job_posting \in LiveTables
    /\ days_to_hire_statistics \in SeedTables
    /\ pc = [r \in Runners |-> "idle"]
    /\ min_postings = [r \in Runners |-> 0]
    /\ country_stats = [r \in Runners |-> EmptyBag]
    /\ global_stats = [r \in Runners |-> EmptyBag]
    /\ runs = 0
    /\ snapshot = [r \in Runners |-> EmptyBag]
    /\ previous = [r \in Runners |-> 0]
    /\ response = NoResponse

\* The CLI process and the requests to the service, in any interleaving: the
\* two share nothing but the datastore.
NextLive ==
    \/ Next
    \/ NextApi

SpecLive == InitLive /\ [][NextLive]_vars

\* ------------------------------------------------------ two CLI processes
\* Two CLI processes on the same datastore, their steps in any interleaving.
\* Each statement of a run is one step: the DELETE with its own commit, the
\* two SELECTs, the final commit that INSERTs.
NextOverlap ==
    \E r \in Runners :
        \/ \E mp \in 1..MaxMinPostings : Main(r, mp)
        \/ ClearExistingStatistics(r)
        \/ CalculateCountryStatistics(r)
        \/ CalculateGlobalStatistics(r)
        \/ Commit(r)
        \/ DatastoreError(r)

SpecOverlap == InitLive /\ [][NextOverlap]_vars

\* ------------------------------------------ reference values of the claims
\* Number of postings of job j in country c (Null: with no country) whose
\* days_to_hire is not NULL.
CountryCount(j, c) ==
    CountRows(job_posting,
              { p \in BagToSet(job_posting) :
                  /\ p.standard_job_id = j
                  /\ p.country_code = c
                  /\ p.days_to_hire # NullInt })

\* Number of postings of job j, whatever the country, whose days_to_hire is
\* not NULL.
GlobalCount(j) ==
    CountRows(job_posting,
              { p \in BagToSet(job_posting) :
                  p.standard_job_id = j /\ p.days_to_hire # NullInt })

\* Number of rows of the summary table with the key (j, c).
RecordsOf(j, c) ==
    CountRows(days_to_hire_statistics,
              { row \in BagToSet(days_to_hire_statistics) :
                  row.standard_job_id = j /\ row.country_code = c })

\* The group of postings a summary row stands for, ascending.
GroupOf(row) ==
    IF row.country_code = Null
    THEN GlobalPartition(job_posting, row.standard_job_id)
    ELSE CountryPartition(job_posting, row.standard_job_id, row.country_code)

\* The mean of the kept subset of the sorted group s under one placing of
\* the ties: every kept posting once.
KeptMean(s, tie) ==
    LET kept == Filtered(s, tie)
    IN IF kept = {} THEN NullRat
       ELSE Rat(SumOver([i \in kept |-> s[i]], kept), Cardinality(kept))

\* ----------------------------------------------------------------- claims
\* C1: a run that fails at any step leaves the summary table as it was when
\* the run started.
C1_FailedRunKeepsSnapshot ==
    pc[1] = "failed" => days_to_hire_statistics = snapshot[1]

\* C2: after a completed run the summary table holds at most one record per
\* (standard_job_id, country_code), the NULL country included.
C2_OneRecordPerKey ==
    pc[1] = "done" =>
        \A j \in Jobs, c \in Countries \cup {Null} : RecordsOf(j, c) <= 1

C2_Witness ==
    /\ pc[1] = "done"
    /\ \E j \in Jobs : RecordsOf(j, Null) = 1 /\ CountryCount(j, Null) > 0

\* C3: after a successful run with threshold min_postings every grouping key
\* (job with a country; job alone, stored with country NULL) has exactly one
\* record if its postings with non-NULL days_to_hire number at least
\* min_postings, and none if they number fewer.
C3_RecordIffThreshold ==
    pc[1] = "done" =>
        \A j \in Jobs, c \in Countries \cup {Null} :
            LET n == IF c = Null THEN GlobalCount(j) ELSE CountryCount(j, c)
            IN /\ n >= min_postings[1] => RecordsOf(j, c) = 1
               /\ n < min_postings[1] => RecordsOf(j, c) = 0

C3_Witness ==
    /\ pc[1] = "done"
    /\ \E j \in Jobs, c \in Countries :
         CountryCount(j, c) >= min_postings[1] /\ RecordsOf(j, c) = 1
    /\ \E j \in Jobs, c \in Countries :
         /\ CountryCount(j, c) > 0
         /\ CountryCount(j, c) < min_postings[1]
         /\ RecordsOf(j, c) = 0
    /\ \E p \in BagToSet(job_posting) : p.days_to_hire = NullInt

\* C4: every record's min_days and max_days are the interpolated 10th and
\* 90th percentile of its group, every posting counted once.
C4_PercentilesOfGroup ==
    pc[1] = "done" =>
        \A row \in BagToSet(days_to_hire_statistics) :
            /\ row.min_days = PercentileCont(1, GroupOf(row))
            /\ row.max_days = PercentileCont(9, GroupOf(row))

\* C5: every record's avg_days is the mean of the kept subset of its group,
\* every kept posting weighted once (under some placing of the ties).
C5_MeanOfKept ==
    pc[1] = "done" =>
        \A row \in BagToSet(days_to_hire_statistics) :
            \E tie \in TieOrders : row.avg_days = KeptMean(GroupOf(row), tie)

\* C6: the record of (job, country NULL) carries the number of all postings
\* of the job with non-NULL days_to_hire, over every country and no country.
C6_GlobalCountsAllPostings ==
    pc[1] = "done" =>
        \A row \in BagToSet(days_to_hire_statistics) :
            row.country_code = Null =>
                row.job_postings_number = GlobalCount(row.standard_job_id)

C6_Witness ==
    /\ pc[1] = "done"
    /\ \E j \in Jobs :
         /\ RecordsOf(j, Null) = 1
         /\ CountryCount(j, Null) > 0
         /\ \A c \in Countries : CountryCount(j, c) > 0

\* C7: a second run in succession, with the same min_postings over the same
\* postings, leaves the summary table equal to what the first run left.
C7_Idempotent ==
    (pc[1] = "done" /\ previous[1] = min_postings[1]) =>
        days_to_hire_statistics = snapshot[1]

C7_Witness ==
    /\ pc[1] = "done"
    /\ previous[1] = min_postings[1]
    /\ days_to_hire_statistics # EmptyBag

\* C8: after a successful run the summary table holds exactly the records
\* that run computed; no row from before the run is left.
C8_ExactlyComputedRecords ==
    pc[1] = "done" =>
        days_to_hire_statistics = country_stats[1] (+) global_stats[1]

C8_Witness ==
    /\ pc[1] = "done"
    /\ BagIn(ManualRow, snapshot[1])
    /\ RecordsOf("job1", "US") = 1
    /\ ~ BagIn(ManualRow, days_to_hire_statistics)

\* C9 as stated: the returned record has the requested standard_job_id and
\* exactly the supplied country_code, and country NULL when none is supplied.
C9_ExactMatchAnyString ==
    (response.endpoint = "/statistics" /\ response.status_code = 200) =>
        /\ response.body.standard_job_id = response.request.standard_job_id
        /\ response.body.country_code = response.request.country_code

\* C9, amended: the returned record has the requested standard_job_id and
\* exactly the supplied country_code when that is a non-empty string, and
\* country NULL when country_code is absent or empty.
C9_ExactMatch ==
    (response.endpoint = "/statistics" /\ response.status_code = 200) =>
        /\ response.body.standard_job_id = response.request.standard_job_id
        /\ response.body.country_code =
             IF response.request.country_code = ""
             THEN Null ELSE response.request.country_code

C9_Witness ==
    /\ response.endpoint = "/statistics"
    /\ response.status_code = 200
    /\ response.request.country_code = Null
    /\ response.body.country_code = Null
    /\ \E c \in Countries : RecordsOf(response.request.standard_job_id, c) > 0

\* C10 as stated: a request (with a non-blank job, the datastore answering)
\* that no record matches gets a 404, whose detail names the global
\* statistics when no country_code was supplied and the job and country
\* when one was.
C10_NotFoundAnyString ==
    (/\ response.endpoint = "/statistics"
     /\ Strip(response.request.standard_job_id) # ""
     /\ response.request.db_ok
     /\ RecordsOf(response.request.standard_job_id,
                  response.request.country_code) = 0) =>
        /\ response.status_code = 404
        /\ response.detail =
             IF response.request.country_code = Null
             THEN "No global statistics found for standard_job_id '"
                  \o response.request.standard_job_id \o "'"
             ELSE "No statistics found for standard_job_id '"
                  \o response.request.standard_job_id
                  \o "' and country_code '"
                  \o response.request.country_code \o "'"

\* C10, amended: with an absent or empty country_code standing for the
\* row of country NULL, a request that no record matches gets a 404, whose
\* detail names the global statistics when country_code is absent or empty
\* and the job and country when it is a non-empty string.
C10_NotFound ==
    (/\ response.endpoint = "/statistics"
     /\ Strip(response.request.standard_job_id) # ""
     /\ response.request.db_ok
     /\ RecordsOf(response.request.standard_job_id,
                  IF response.request.country_code = ""
                  THEN Null ELSE response.request.country_code) = 0) =>
        /\ response.status_code = 404
        /\ response.detail =
             IF response.request.country_code \in {Null, ""}
             THEN "No global statistics found for standard_job_id '"
                  \o response.request.standard_job_id \o "'"
             ELSE "No statistics found for standard_job_id '"
                  \o response.request.standard_job_id
                  \o "' and country_code '"
                  \o response.request.country_code \o "'"

C10_Witness ==
    /\ response.endpoint = "/statistics"
    /\ response.status_code = 404
    /\ response.request.country_code \in Countries
    /\ RecordsOf(response.request.standard_job_id, Null) > 0
    /\ response.detail =
         "No statistics found for standard_job_id '"
         \o response.request.standard_job_id \o "' and country_code '"
         \o response.request.country_code \o "'"

\* C11: a request to /statistics whose standard_job_id is empty or blank
\* gets a 400, and the handler has opened no datastore session for it,
\* whatever country_code is, whatever the table holds and whether or not the
\* datastore answers.
C11_BlankRejectedBeforeSession ==
    (/\ response.endpoint = "/statistics"
     /\ Strip(response.request.standard_job_id) = "") =>
        /\ response.status_code = 400
        /\ ~ response.session

C11_Witness ==
    /\ response.endpoint = "/statistics"
    /\ response.request.standard_job_id = " "
    /\ response.request.country_code = "US"
    /\ ~ response.request.db_ok
    /\ response.status_code = 400
    /\ days_to_hire_statistics # EmptyBag

\* The values a listing is expected to hold.
JobsPresent ==
    {row.standard_job_id : row \in BagToSet(days_to_hire_statistics)}

CountriesPresent(j) ==
    {row.country_code : row \in
        {x \in BagToSet(days_to_hire_statistics) :
           x.standard_job_id = j /\ x.country_code # Null}}

Ascending(seq) ==
    \A i \in 1..Len(seq) : \A k \in 1..Len(seq) :
        i < k => StrLess(seq[i], seq[k])

\* C12: when the datastore answers, the jobs listing is 200 and holds exactly
\* the distinct standard_job_id values of the summary table, the countries
\* listing is 200 and holds exactly the distinct non-null country_code values
\* of the rows of the requested job (so it is empty for a job with only a
\* null-country row or no row); each list is strictly ascending, hence free
\* of duplicates, and count is its length.
C12_ListingsDistinctSorted ==
    /\ (/\ response.endpoint = "/statistics/available-jobs"
        /\ response.request.db_ok) =>
           /\ response.status_code = 200
           /\ {response.body.available_jobs[i] :
                 i \in 1..Len(response.body.available_jobs)} = JobsPresent
           /\ Ascending(response.body.available_jobs)
           /\ response.body.count = Len(response.body.available_jobs)
           /\ response.body.count = Cardinality(JobsPresent)
    /\ (/\ response.endpoint = "/statistics/available-countries"
        /\ response.request.db_ok) =>
           /\ response.status_code = 200
           /\ {response.body.available_countries[i] :
                 i \in 1..Len(response.body.available_countries)}
              = CountriesPresent(response.request.standard_job_id)
           /\ Ascending(response.body.available_countries)
           /\ response.body.count = Len(response.body.available_countries)
           /\ response.body.count
              = Cardinality(CountriesPresent(response.request.standard_job_id))

\* A countries listing of two values over a table that holds each row twice.
C12_Witness ==
    /\ response.endpoint = "/statistics/available-countries"
    /\ response.status_code = 200
    /\ response.body.available_countries = <<"DE", "US">>
    /\ \E row \in BagToSet(days_to_hire_statistics) :
         /\ row.standard_job_id = response.request.standard_job_id
         /\ row.country_code = Null
         /\ CopiesIn(row, days_to_hire_statistics) = 2

\* An empty countries listing for a job whose only row has no country.
C12_WitnessEmpty ==
    /\ response.endpoint = "/statistics/available-countries"
    /\ response.status_code = 200
    /\ response.body.available_countries = << >>
    /\ \E row \in BagToSet(days_to_hire_statistics) :
         row.standard_job_id = response.request.standard_job_id

\* C13: no step of a run changes the fact table, and no request to the
\* service changes the summary table or the fact table.
C13_FrameOfRunAndService ==
    [][ /\ job_posting' = job_posting
        /\ NextApi => days_to_hire_statistics' = days_to_hire_statistics ]_vars

\* A request answered after a run has rewritten the summary table from a
\* fact table that is not empty.
C13_Witness ==
    /\ pc[1] = "done"
    /\ job_posting # EmptyBag
    /\ days_to_hire_statistics # EmptyBag
    /\ days_to_hire_statistics # snapshot[1]
    /\ response.endpoint = "/statistics"
    /\ response.status_code = 200
    /\ response.body \in BagToSet(days_to_hire_statistics)
    /\ response.body # ManualRow

\* The records a run with min_postings mp computes over the fact table.
NewSnapshot(mp, tie) ==
    CountryStatsQuery(job_posting, mp, tie) (+) GlobalStatsQuery(job_posting, mp, tie)

\* C14: GET /statistics answered while a run is between its start and its
\* commit does not report NotFound for a key that both the snapshot of before
\* the run and the snapshot the run computes hold: the service never reads
\* the table empty or half filled.
C14_ReadDuringRunSeesSnapshot ==
    [][ (/\ pc[1] \in {"clear", "country", "global", "commit"}
         /\ \E standard_job_id \in RequestJobs,
               country_code \in RequestCountries :
                GetStatistics(standard_job_id, country_code, TRUE)
         /\ SelectStatistics(snapshot[1], response'.request.standard_job_id,
                             response'.request.country_code) # {}
         /\ \A tie \in TieOrders :
              SelectStatistics(NewSnapshot(min_postings[1], tie),
                               response'.request.standard_job_id,
                               response'.request.country_code) # {})
        => response'.status_code # 404 ]_vars

\* C15: once two runs on the same summary table have both finished, the
\* table holds exactly the records one of them computed: the last commit
\* wins, and no key is there twice.
C15_LastCommitWins ==
    (pc[1] = "done" /\ pc[2] = "done") =>
        /\ \E r \in Runners :
             days_to_hire_statistics = country_stats[r] (+) global_stats[r]
        /\ \A j \in Jobs, c \in Countries \cup {Null} : RecordsOf(j, c) <= 1

\* C16: every record of a completed run has min_days <= avg_days <= max_days.
C16_MinAvgMaxOrdered ==
    pc[1] = "done" =>
        \A row \in BagToSet(country_stats[1] (+) global_stats[1]) :
            /\ RatLeq(row.min_days, row.avg_days)
            /\ RatLeq(row.avg_days, row.max_days)

\* C17: with min_postings >= 3 every record a run computes, by the country
\* query or by the global query, has an avg_days that is not NULL.
C17_ComputedAvgDefined ==
    min_postings[1] >= 3 =>
        \A row \in BagToSet(country_stats[1] (+) global_stats[1]) :
            row.avg_days # NullRat
====
